---- MODULE Spec2Model ----
(***************************************************************************)
(* A model of shyft's core/utctime_utilities.h: the instant type and its   *)
(* sentinels, floor, the half-open utcperiod, the table driven time zone   *)
(* (tz_table, tz_info<tz_table>, tz_info_database) and the calendar        *)
(* operations that are built on them.                                      *)
(*                                                                         *)
(* Scale.  utctime is a signed 64 bit count of microseconds.  The model    *)
(* keeps the structure and shrinks the magnitudes: the integer is IntBits  *)
(* wide (two's complement, so the sentinels utctime::min()/max() and       *)
(* signed overflow exist), one second is TicksPerSecond ticks, a minute    *)
(* SecondsPerMinute seconds, an hour MinutesPerHour minutes and a day      *)
(* HoursPerDay hours.  The Gregorian day numbers are the real ones.        *)
(***************************************************************************)
EXTENDS Integers, Sequences, FiniteSets, TLC

VARIABLES
    op,             \* the operation that ran ("none": none yet; each run makes one call)
    arg,            \* its arguments
    ret,            \* its outcome: a value, a thrown exception, or a crash
    cal,            \* the calendar's tz_info: [base_tz, tz: a tz_table]
    region_tz_map,  \* tz_info_database::region_tz_map
    name_tz_map     \* tz_info_database::name_tz_map

vars == <<op, arg, ret, cal, region_tz_map, name_tz_map>>

----------------------------------------------------------------------------
(* Bounds of the model *)

IntBits == 19
TicksPerSecond == 2
SecondsPerMinute == 2
MinutesPerHour == 2
HoursPerDay == 4
\* instants sampled within EdgeSpan ticks of zero and of both ends of the range
EdgeSpan == 9
\* raw durations sampled in -MaxSpan..MaxSpan
MaxSpan == 4
\* period endpoints sampled in -PeriodSpan..PeriodSpan, plus the sentinels
PeriodSpan == 2
\* days sampled on either side of the epoch
DaySpan == 2

----------------------------------------------------------------------------
(* int64_t, scaled to IntBits bits *)

IntMin == -(2^(IntBits - 1))
IntMax == 2^(IntBits - 1) - 1
InInt(x) == IntMin <= x /\ x <= IntMax
\* two's complement wrap-around of a mathematical integer
Wrap(x) == ((x - IntMin) % (2^IntBits)) + IntMin
Abs(x) == IF x < 0 THEN -x ELSE x
\* the C++ integer division, which truncates toward zero, and its remainder
TruncDiv(a, b) == IF (a < 0) = (b < 0) THEN Abs(a) \div Abs(b) ELSE -(Abs(a) \div Abs(b))
TruncRem(a, b) == a - b * TruncDiv(a, b)

(* Outcomes of an operation *)
Value(v) == [kind |-> "value", v |-> v]
Throw(what) == [kind |-> "error", what |-> what]
Crash == [kind |-> "crash"]

\* Signed overflow is undefined behaviour: the build may produce the wrapped
\* value, or any other value of the type (representatives are kept).
Overflowed(x) == {Wrap(x), IntMin, 0, IntMax}
smul(a, b) == IF InInt(a * b) THEN {a * b} ELSE Overflowed(a * b)
\* num / den and lldiv(num, den): IntMin / -1 overflows, which traps or wraps
sdiv_overflows(a, b) == a = IntMin /\ b = -1

----------------------------------------------------------------------------
(* utctime, its sentinels, floor *)

max_utctime == IntMax
no_utctime == IntMin
\* utctime(- utctime::min().time_since_epoch()): the negation of the smallest
\* integer overflows; the constant is set once, before any operation runs,
\* and a build that gets past it holds what two's complement negation leaves,
\* the smallest integer again ("min 64bit int" in the source's comment)
min_utctime == Wrap(-IntMin)

is_valid(t) == t # no_utctime

\* 0 < (num ^ den): the sign bits agree and the operands differ
xor_positive(num, den) == ((num < 0) = (den < 0)) /\ num # den

floor_truncating(t, dt) ==
    IF dt = 0 THEN {Value(t)}
    ELSE IF sdiv_overflows(t, dt) THEN {Crash, Value(IntMin)}
    ELSE {Value(v) : v \in smul(dt, TruncDiv(t, dt))}

floor_sign_of_num(t, dt) ==
    IF dt = 0 THEN {Value(t)}
    ELSE IF sdiv_overflows(t, dt) THEN {Crash, Value(IntMin)}
    ELSE IF t > 0
         THEN {Value(v) : v \in smul(dt, TruncDiv(t, dt))}
         ELSE IF TruncRem(t, dt) # 0
              THEN {Value(v) : v \in smul(dt, TruncDiv(t, dt) - 1)}
              ELSE {Value(v) : v \in smul(dt, TruncDiv(t, dt))}

floor(t, dt) ==
    LET den == dt
        num == t
    IN  IF den = 0 THEN {Value(t)}
        ELSE IF sdiv_overflows(num, den) THEN {Crash, Value(IntMin)}
        ELSE IF xor_positive(num, den)
             THEN {Value(v) : v \in smul(den, TruncDiv(num, den))}
             ELSE LET quot == TruncDiv(num, den)
                      rem == TruncRem(num, den)
                  IN  IF rem # 0
                      THEN {Value(v) : v \in smul(den, quot - 1)}
                      ELSE {Value(v) : v \in smul(den, quot)}

----------------------------------------------------------------------------
(* utcperiod *)

utcperiod(start, end) == [start |-> start, end |-> end]
utcperiod_default == utcperiod(no_utctime, no_utctime)

valid(p) == p.start # no_utctime /\ p.end # no_utctime /\ p.start <= p.end

contains_closed(p, t) ==
    IF is_valid(t) /\ valid(p) THEN t >= p.start /\ t <= p.end ELSE FALSE

contains(p, t) ==
    IF is_valid(t) /\ valid(p) THEN t >= p.start /\ t < p.end ELSE FALSE

overlaps(p, q) == IF (q.start >= p.end) \/ (q.end <= p.start) THEN FALSE ELSE TRUE

Max2(a, b) == IF a < b THEN b ELSE a
Min2(a, b) == IF b < a THEN b ELSE a

intersection(a, b) ==
    LET t0 == Max2(a.start, b.start)
        t1 == Min2(a.end, b.end)
    IN  IF t0 <= t1 THEN utcperiod(t0, t1) ELSE utcperiod_default

----------------------------------------------------------------------------
(* Time spans: deltahours, deltaminutes and the calendar's constants *)

SECOND == TicksPerSecond
MINUTE == SecondsPerMinute * SECOND
HOUR == MinutesPerHour * MINUTE
DAY == HoursPerDay * HOUR
WEEK == 7 * DAY
HOUR_3 == 3 * HOUR
MONTH == 30 * DAY
QUARTER == 3 * MONTH
YEAR == 365 * DAY

deltahours(h) == h * HOUR
deltaminutes(m) == m * MINUTE

\* std::chrono::duration_cast<seconds>: the integer division of the tick count,
\* which truncates toward zero
duration_cast_seconds(d) == TruncDiv(d, SECOND)

----------------------------------------------------------------------------
(* YMDhms and the day-number kernel *)

YEAR_MAX == 9999
YEAR_MIN == -9999

YMDhms(Y, M, D, h, m, s) ==
    [year |-> Y, month |-> M, day |-> D, hour |-> h, minute |-> m, second |-> s]
YMDhms_null == YMDhms(0, 0, 0, 0, 0, 0)
YMDhms_max ==
    YMDhms(YEAR_MAX, 12, 31, HoursPerDay - 1, MinutesPerHour - 1, SecondsPerMinute - 1)
YMDhms_min == YMDhms(YEAR_MIN, 1, 1, 0, 0, 0)

is_null(c) ==
    c.year = 0 /\ c.month = 0 /\ c.day = 0 /\ c.hour = 0 /\ c.minute = 0 /\ c.second = 0
is_valid_coordinates(c) ==
    ~(\/ c.year < YEAR_MIN \/ c.year > YEAR_MAX \/ c.month < 1 \/ c.month > 12
      \/ c.day < 1 \/ c.day > 31 \/ c.hour < 0 \/ c.hour > HoursPerDay - 1
      \/ c.minute < 0 \/ c.minute > MinutesPerHour - 1
      \/ c.second < 0 \/ c.second > SecondsPerMinute - 1)
YMDhms_is_valid(c) == is_null(c) \/ is_valid_coordinates(c)

UnixDay == 2440588
UnixSecond == UnixDay * duration_cast_seconds(DAY)

\* day_number(YMDhms): the serial day number of a civil date
day_number_ymd(c) ==
    LET a == TruncDiv(c.month - 14, 12)
    IN  TruncDiv(1461 * (c.year + 4800 + a), 4)
        + TruncDiv(367 * (c.month - 2 - 12 * a), 12)
        - TruncDiv(3 * TruncDiv(c.year + 4900 + a, 100), 4)
        + c.day - 32075

\* from_day_number: the civil date of a serial day number
from_day_number(dayNumber) ==
    LET a == dayNumber + 32044
        b == TruncDiv(4 * a + 3, 146097)
        c == a - TruncDiv(146097 * b, 4)
        d == TruncDiv(4 * c + 3, 1461)
        e == c - TruncDiv(1461 * d, 4)
        m == TruncDiv(5 * e + 2, 153)
    IN  YMDhms(100 * b + d - 4800 + TruncDiv(m, 10),
               m + 3 - 12 * TruncDiv(m, 10),
               e - TruncDiv(153 * m + 2, 5) + 1, 0, 0, 0)

\* day_number(utctime)
day_number(t) ==
    TruncDiv(UnixSecond + duration_cast_seconds(t), duration_cast_seconds(DAY))

hms_seconds(h, m, s) == deltahours(h) + deltaminutes(m) + s * SECOND

utc_year(t) ==
    IF t = no_utctime THEN Throw("year of no_utctime")
    ELSE IF t = max_utctime THEN Value(YEAR_MAX)
    ELSE IF t = min_utctime THEN Value(YEAR_MIN)
    ELSE Value(from_day_number(day_number(t)).year)

----------------------------------------------------------------------------
(* Outcomes that pass through a caller *)

Undefined(v) == [kind |-> "undefined", v |-> v]

\* the outcomes of a computation that continues with F on each value of S;
\* an exception, a crash or an undefined outcome of S ends it
Bind(S, F(_)) == UNION {IF r.kind = "value" THEN F(r.v) ELSE {r} : r \in S}

----------------------------------------------------------------------------
(* tz_table *)

\* The Tz adapter a table is built from: dst_start(year), dst_end(year),
\* dst_offset(year) and name().  Three rules are provided: a northern one
\* (summer time inside the year), one whose summer time starts at local
\* midnight east of Greenwich, and a southern one (summer time wraps around
\* the turn of the year); the northern offset differs from year to year.
UtcInstant(Y, M, D, h) == (day_number_ymd(YMDhms(Y, M, D, 0, 0, 0)) - UnixDay) * DAY + h * HOUR

TzRules == {"north", "midnight", "south"}

Tz_dst_start(rule, y) ==
    CASE rule = "north" -> UtcInstant(y, 3, 27, 1)
      [] rule = "midnight" -> UtcInstant(y, 3, 26, HoursPerDay - 1)
      [] rule = "south" -> UtcInstant(y, 10, 2, 1)

Tz_dst_end(rule, y) ==
    CASE rule = "north" -> UtcInstant(y, 10, 30, 1)
      [] rule = "midnight" -> UtcInstant(y, 10, 29, HoursPerDay - 2)
      [] rule = "south" -> UtcInstant(y, 3, 20, 1)

Tz_dst_offset(rule, y) ==
    CASE rule = "north" -> IF y % 2 = 0 THEN HOUR ELSE HOUR \div 2
      [] rule = "midnight" -> HOUR
      [] rule = "south" -> HOUR

\* tz_table(const Tz& tz, int start_year, size_t n_years)
tz_table_from_rule(rule, start_year, n_years) ==
    [start_year |-> start_year,
     tz_name |-> rule,
     dst |-> [i \in 1..n_years |->
                utcperiod(Tz_dst_start(rule, start_year + i - 1),
                          Tz_dst_end(rule, start_year + i - 1))],
     dt |-> [i \in 1..n_years |-> Tz_dst_offset(rule, start_year + i - 1)]]

\* the decimal digits of a natural number
Digit(d) == <<"0", "1", "2", "3", "4", "5", "6", "7", "8", "9">>[d + 1]
RECURSIVE Decimal(_)
Decimal(n) == IF n < 10 THEN Digit(n) ELSE Decimal(n \div 10) \o Digit(n % 10)

RECURSIVE Zeros(_)
Zeros(n) == IF n <= 0 THEN "" ELSE "0" \o Zeros(n - 1)

\* printf's %+02d: a sign always, then the digits, zero-padded after the sign
\* up to a total width of two characters, the sign included
sprintf_plus_02d(n) ==
    LET sign == IF n < 0 THEN "-" ELSE "+"
        digits == Decimal(Abs(n))
    IN  sign \o Zeros(2 - (1 + Len(digits))) \o digits

\* explicit tz_table(utctimespan dt)
tz_table_from_offset(dt) ==
    [start_year |-> 0,
     tz_name |-> "UTC" \o sprintf_plus_02d(TruncDiv(dt, deltahours(1))),
     dst |-> <<>>,
     dt |-> <<>>]

\* tz_table::is_dst()
tz_table_is_dst(tz) == Len(tz.dst) > 0

\* what a read of dt[] outside the vector may yield
OutOfBoundsSpans == {0, -1, HOUR}

dst_offset_closed_end(tz, t) ==
    IF ~tz_table_is_dst(tz) THEN {Value(0)}
    ELSE Bind({utc_year(t)}, LAMBDA year :
            LET i == year - tz.start_year
            IN  IF i >= Len(tz.dst) THEN {Value(0)}
                ELSE IF i < 0 THEN {Crash} \cup {Undefined(g) : g \in OutOfBoundsSpans}
                ELSE LET s == tz.dst[i + 1].start
                         e == tz.dst[i + 1].end
                         in_dst == IF s < e THEN t >= s /\ t <= e ELSE t <= e \/ t >= s
                     IN  {Value(IF in_dst THEN tz.dt[i + 1] ELSE 0)})

\* tz_table::dst_offset(utctime t).  dst_start(year) and dst_end(year) read
\* dst[year - start_year]; an index below zero passes the size check and reads
\* outside the vectors, which is undefined.
dst_offset(tz, t) ==
    IF ~tz_table_is_dst(tz) THEN {Value(0)}
    ELSE Bind({utc_year(t)}, LAMBDA year :
            LET i == year - tz.start_year
            IN  IF i >= Len(tz.dst) THEN {Value(0)}
                ELSE IF i < 0 THEN {Crash} \cup {Undefined(g) : g \in OutOfBoundsSpans}
                ELSE LET s == tz.dst[i + 1].start
                         e == tz.dst[i + 1].end
                         in_dst == IF s < e THEN t >= s /\ t < e ELSE t < e \/ t >= s
                     IN  {Value(IF in_dst THEN tz.dt[i + 1] ELSE 0)})

----------------------------------------------------------------------------
(* tz_info<tz_table> *)

\* tz_info(utctimespan base_tz)
tz_info_from_offset(base_tz) == [base_tz |-> base_tz, tz |-> tz_table_from_offset(base_tz)]
\* tz_info(utctimespan base_tz, const tz_table& tz)
tz_info_from_table(base_tz, tz) == [base_tz |-> base_tz, tz |-> tz]

base_offset(ti) == ti.base_tz
utc_offset(ti, t) == Bind(dst_offset(ti.tz, t), LAMBDA d : {Value(ti.base_tz + d)})
is_dst(ti, t) == Bind(dst_offset(ti.tz, t), LAMBDA d : {Value(d # 0)})

----------------------------------------------------------------------------
(* calendar: civil coordinates <-> instant, trim *)

SecondsPerDay == duration_cast_seconds(DAY)

\* calendar::time(YMDhms c): the instant of local civil coordinates.  The
\* candidate t0 counts the civil coordinates as if they were UTC; the offset
\* subtracted is the one in force at t0 - base_offset.
time(ti, c) ==
    IF is_null(c) THEN {Value(no_utctime)}
    ELSE IF c = YMDhms_max THEN {Value(max_utctime)}
    ELSE IF c = YMDhms_min THEN {Value(min_utctime)}
    ELSE IF ~YMDhms_is_valid(c)
         THEN {Throw("calendar coordinates failed simple range check for one or more item")}
    ELSE LET t0 == (day_number_ymd(c) - UnixDay) * DAY + hms_seconds(c.hour, c.minute, c.second)
         IN  Bind(utc_offset(ti, t0 - base_offset(ti)), LAMBDA o : {Value(t0 - o)})

\* calendar::calendar_units(utctime t): the local civil coordinates of t
calendar_units(ti, t) ==
    IF t = no_utctime THEN {Value(YMDhms_null)}
    ELSE IF t = max_utctime THEN {Value(YMDhms_max)}
    ELSE IF t = min_utctime THEN {Value(YMDhms_min)}
    ELSE Bind(utc_offset(ti, t), LAMBDA o :
            LET local == t + o
                tj == UnixSecond + duration_cast_seconds(local)
                ymd == from_day_number(day_number(local))
                sod == TruncRem(tj, SecondsPerDay)
                spm == SecondsPerMinute
                sph == MinutesPerHour * SecondsPerMinute
            IN  {Value(YMDhms(ymd.year, ymd.month, ymd.day,
                              TruncDiv(sod, sph),
                              TruncDiv(TruncRem(sod, sph), spm),
                              TruncRem(sod, spm)))})

CalendarUnits == {YEAR, QUARTER, MONTH, WEEK, DAY, HOUR_3}

\* the civil coordinates with the fields below the unit zeroed
trim_coordinates(c, deltaT) ==
    CASE deltaT = YEAR -> YMDhms(c.year, 1, 1, 0, 0, 0)
      [] deltaT = QUARTER -> YMDhms(c.year, TruncDiv(c.month - 1, 3) * 3 + 1, 1, 0, 0, 0)
      [] deltaT = MONTH -> YMDhms(c.year, c.month, 1, 0, 0, 0)
      [] deltaT = WEEK ->
            LET jdn == day_number_ymd(c)
            IN  from_day_number(jdn - (jdn % 7))
      [] deltaT = DAY -> YMDhms(c.year, c.month, c.day, 0, 0, 0)
      [] deltaT = HOUR_3 -> YMDhms(c.year, c.month, c.day, TruncDiv(c.hour, 3) * 3, 0, 0)

\* calendar::trim(utctime t, utctimespan deltaT)
trim(ti, t, deltaT) ==
    IF deltaT \in CalendarUnits
    THEN Bind(calendar_units(ti, t), LAMBDA c : time(ti, trim_coordinates(c, deltaT)))
    ELSE floor(t, deltaT)

----------------------------------------------------------------------------
(* tz_info_database *)

\* the POSIX time zone strings the database is filled from, and the tz_info
\* each describes
PosixStrings == {"CET-1CEST,M3.5.0,M10.5.0/3", "AEST-10AEDT,M10.1.0,M4.1.0/3"}
posix_tz_info(posix_tz_string) ==
    IF posix_tz_string = "CET-1CEST,M3.5.0,M10.5.0/3"
    THEN tz_info_from_table(HOUR, [tz_table_from_rule("north", 1905, 2) EXCEPT !.tz_name = "CET"])
    ELSE tz_info_from_table(10 * HOUR, [tz_table_from_rule("south", 1905, 2) EXCEPT !.tz_name = "AEST"])

MapPut(map, k, v) == [x \in (DOMAIN map) \cup {k} |-> IF x = k THEN v ELSE map[x]]

\* tz_info_database::add_tz_info(region_name, posix_tz_string): the new
\* tz_info is registered under the region and under its own name
add_tz_info_region_map(map, region_name, posix_tz_string) ==
    MapPut(map, region_name, posix_tz_info(posix_tz_string))
add_tz_info_name_map(map, region_name, posix_tz_string) ==
    MapPut(map, posix_tz_info(posix_tz_string).tz.tz_name, posix_tz_info(posix_tz_string))

tz_info_from_region_no_key(map, region_name) ==
    IF region_name \in DOMAIN map THEN Value(map[region_name])
    ELSE Throw("tz region not found")

\* tz_info_database::tz_info_from_region, on region_tz_map
tz_info_from_region(map, region_name) ==
    IF region_name \in DOMAIN map THEN Value(map[region_name])
    ELSE Throw("tz region '" \o region_name \o "' not found")

\* tz_info_database::tz_info_from_name, on name_tz_map
tz_info_from_name(map, name) ==
    IF name \in DOMAIN map THEN Value(map[name])
    ELSE Throw("tz name '" \o name \o "' not found")

----------------------------------------------------------------------------
(* Inputs of the instant and period operations *)

FloorTimes == (IntMin..(IntMin + EdgeSpan)) \cup ((-EdgeSpan)..EdgeSpan)
                \cup ((IntMax - EdgeSpan)..IntMax)
FloorSpans == (-MaxSpan)..MaxSpan
PeriodTimes == {no_utctime, max_utctime} \cup ((-PeriodSpan)..PeriodSpan)
Periods == {utcperiod(s, e) : s \in PeriodTimes, e \in PeriodTimes}

\* the state before any operation ran: the default calendar (calendar(int
\* tz_s = 0), a fixed offset of zero) and an empty database
NoArg == [none |-> TRUE]
\* tz_table()
tz_table_default == [start_year |-> 0, tz_name |-> "UTC+00", dst |-> <<>>, dt |-> <<>>]
\* tz_info()
tz_info_default == [base_tz |-> 0, tz |-> tz_table_default]

Init ==
    /\ op = "none"
    /\ arg = NoArg
    /\ ret = Value(0)
    /\ cal = tz_info_from_offset(0)
    /\ region_tz_map = <<>>
    /\ name_tz_map = <<>>

Floor ==
    /\ op = "none"
    /\ \E t \in FloorTimes, dt \in FloorSpans :
            \E r \in floor(t, dt) :
                /\ op' = "floor"
                /\ arg' = [t |-> t, dt |-> dt]
                /\ ret' = r
                /\ UNCHANGED <<cal, region_tz_map, name_tz_map>>

Contains ==
    /\ op = "none"
    /\ \E p \in Periods, t \in PeriodTimes :
            /\ op' = "contains"
            /\ arg' = [p |-> p, t |-> t]
            /\ ret' = Value(contains(p, t))
            /\ UNCHANGED <<cal, region_tz_map, name_tz_map>>

Intersection ==
    /\ op = "none"
    /\ \E a \in Periods, b \in Periods :
            /\ op' = "intersection"
            /\ arg' = [a |-> a, b |-> b]
            /\ ret' = Value(intersection(a, b))
            /\ UNCHANGED <<cal, region_tz_map, name_tz_map>>

\* instants within a second of the start of each of the days around the epoch
DayTimes ==
    {d * DAY + k : d \in (-DaySpan)..DaySpan, k \in (-(SECOND + 1))..(SECOND + 1)}

DayNumber ==
    /\ op = "none"
    /\ \E t \in DayTimes :
            /\ op' = "day_number"
            /\ arg' = [t |-> t]
            /\ ret' = Value(day_number(t))
            /\ UNCHANGED <<cal, region_tz_map, name_tz_map>>

\* calendar::utc_year on the sentinels and on instants around the day
\* boundaries next to the epoch
UtcYearTimes == {no_utctime, max_utctime, min_utctime} \cup DayTimes

UtcYear ==
    /\ op = "none"
    /\ \E t \in UtcYearTimes :
            /\ op' = "utc_year"
            /\ arg' = [t |-> t]
            /\ ret' = utc_year(t)
            /\ UNCHANGED <<cal, region_tz_map, name_tz_map>>

NextInstant == Floor \/ Contains \/ Intersection \/ DayNumber \/ UtcYear

SpecInstant == Init /\ [][NextInstant]_vars

----------------------------------------------------------------------------
(* The time zone and calendar operations: a calendar is constructed, then
   one of its operations is called *)

\* the table's first year and length (1905 and 200 by default in the source)
TableStartYear == 1969
TableYears == 3
\* fixed offsets are sampled by half hours up to MaxOffsetHalfHours of them
MaxOffsetHalfHours == 23
\* instants are sampled within TzSpan ticks of each year's start and of each
\* start and end of summer time
TzSpan == 2

OffsetSpans == {TruncDiv(k * HOUR, 2) : k \in (-MaxOffsetHalfHours)..MaxOffsetHalfHours}
BaseOffsets == {0, HOUR}

TzYears == (TableStartYear - 1)..(TableStartYear + TableYears)
Transitions(ti) ==
    {ti.tz.dst[i].start : i \in DOMAIN ti.tz.dst} \cup {ti.tz.dst[i].end : i \in DOMAIN ti.tz.dst}
EventInstants(ti) == {UtcInstant(y, 1, 1, 0) : y \in TzYears} \cup Transitions(ti)
TzTimes(ti) == {e + k : e \in EventInstants(ti), k \in (-TzSpan)..TzSpan}

\* the local dates of the transitions, every time of day on each
EventDates(ti) ==
    {from_day_number(day_number(e + ti.base_tz)) : e \in Transitions(ti)}
        \cup {YMDhms(TableStartYear + 1, 1, 1, 0, 0, 0)}
Coordinates(ti) ==
    {YMDhms(d.year, d.month, d.day, h, m, s) :
        d \in EventDates(ti), h \in 0..(HoursPerDay - 1),
        m \in 0..(MinutesPerHour - 1), s \in 0..(SecondsPerMinute - 1)}
        \cup {YMDhms_null, YMDhms(TableStartYear, 13, 1, 0, 0, 0)}

\* trim is called with calendar units and raw durations on instants around
\* the events (floor, to which the raw durations go, meets the ends of the
\* integer range under Floor)
RawSpans == ((-MaxSpan)..MaxSpan) \cup {HOUR}
TrimInputs(ti) ==
    {e + k : e \in EventInstants(ti), k \in {-1, 0, 1, HOUR + 1}}
        \X (CalendarUnits \cup RawSpans)

CalendarFromOffset ==
    /\ op = "none"
    /\ \E tz \in OffsetSpans :
            /\ op' = "calendar"
            /\ arg' = [tz |-> tz]
            /\ cal' = tz_info_from_offset(tz)
            /\ UNCHANGED <<ret, region_tz_map, name_tz_map>>

CalendarFromTzInfo ==
    /\ op = "none"
    /\ \E base_tz \in BaseOffsets, rule \in TzRules :
            /\ op' = "calendar"
            /\ arg' = [base_tz |-> base_tz, rule |-> rule]
            /\ cal' = tz_info_from_table(base_tz, tz_table_from_rule(rule, TableStartYear, TableYears))
            /\ UNCHANGED <<ret, region_tz_map, name_tz_map>>

CalendarFromDefaultTzInfo ==
    /\ op = "none"
    /\ op' = "calendar"
    /\ arg' = [default |-> TRUE]
    /\ cal' = tz_info_default
    /\ UNCHANGED <<ret, region_tz_map, name_tz_map>>

DstOffset ==
    /\ op = "calendar"
    /\ \E t \in TzTimes(cal) :
            \E r \in dst_offset(cal.tz, t) :
                /\ op' = "dst_offset"
                /\ arg' = [t |-> t]
                /\ ret' = r
                /\ UNCHANGED <<cal, region_tz_map, name_tz_map>>

UtcOffset ==
    /\ op = "calendar"
    /\ \E t \in TzTimes(cal) :
            \E r \in utc_offset(cal, t) :
                /\ op' = "utc_offset"
                /\ arg' = [t |-> t]
                /\ ret' = r
                /\ UNCHANGED <<cal, region_tz_map, name_tz_map>>

IsDst ==
    /\ op = "calendar"
    /\ \E t \in TzTimes(cal) :
            \E r \in is_dst(cal, t) :
                /\ op' = "is_dst"
                /\ arg' = [t |-> t]
                /\ ret' = r
                /\ UNCHANGED <<cal, region_tz_map, name_tz_map>>

Time ==
    /\ op = "calendar"
    /\ \E c \in Coordinates(cal) :
            \E r \in time(cal, c) :
                /\ op' = "time"
                /\ arg' = [c |-> c]
                /\ ret' = r
                /\ UNCHANGED <<cal, region_tz_map, name_tz_map>>

Trim ==
    /\ op = "calendar"
    /\ \E in \in TrimInputs(cal) :
            \E r \in trim(cal, in[1], in[2]) :
                /\ op' = "trim"
                /\ arg' = [t |-> in[1], deltaT |-> in[2]]
                /\ ret' = r
                /\ UNCHANGED <<cal, region_tz_map, name_tz_map>>

\* trim applied to the instant the previous trim returned, with the same deltaT
TrimAgain ==
    /\ op = "trim"
    /\ ret.kind = "value"
    /\ \E r \in trim(cal, ret.v, arg.deltaT) :
        /\ op' = "trim_again"
        /\ arg' = [t |-> ret.v, deltaT |-> arg.deltaT, first |-> arg.t]
        /\ ret' = r
        /\ UNCHANGED <<cal, region_tz_map, name_tz_map>>

NextTz ==
    \/ CalendarFromOffset \/ CalendarFromTzInfo \/ CalendarFromDefaultTzInfo
    \/ DstOffset \/ UtcOffset \/ IsDst \/ Time \/ Trim \/ TrimAgain

SpecTz == Init /\ [][NextTz]_vars

----------------------------------------------------------------------------
(* The database: entries are added and looked up in any order *)

Regions == {"Europe/Oslo", "Europe/Copenhagen", "Australia/Sydney"}
LookupKeys == Regions \cup {"CET", "AEST", "Mars/Olympus"}

AddTzInfo ==
    \E region_name \in Regions, posix_tz_string \in PosixStrings :
        /\ op' = "add_tz_info"
        /\ arg' = [region_name |-> region_name, posix_tz_string |-> posix_tz_string]
        /\ ret' = Value(0)
        /\ region_tz_map' = add_tz_info_region_map(region_tz_map, region_name, posix_tz_string)
        /\ name_tz_map' = add_tz_info_name_map(name_tz_map, region_name, posix_tz_string)
        /\ UNCHANGED cal

TzInfoFromRegion ==
    \E k \in LookupKeys :
        /\ op' = "tz_info_from_region"
        /\ arg' = [k |-> k]
        /\ ret' = tz_info_from_region(region_tz_map, k)
        /\ UNCHANGED <<cal, region_tz_map, name_tz_map>>

TzInfoFromName ==
    \E k \in LookupKeys :
        /\ op' = "tz_info_from_name"
        /\ arg' = [k |-> k]
        /\ ret' = tz_info_from_name(name_tz_map, k)
        /\ UNCHANGED <<cal, region_tz_map, name_tz_map>>

NextDb == AddTzInfo \/ TzInfoFromRegion \/ TzInfoFromName

SpecDb == Init /\ [][NextDb]_vars

----------------------------------------------------------------------------
(* C1: for every instant t and every positive dt, floor(t, dt) is a multiple
   of dt with floor(t, dt) <= t < floor(t, dt) + dt, and floor(t, 0) = t.
   As stated, for every instant: *)
FloorIsGreatestMultiple(t, dt, r) ==
    /\ r.kind = "value"
    /\ r.v % dt = 0
    /\ r.v <= t
    /\ t < r.v + dt

C1_FloorEveryInstant ==
    op = "floor" =>
        /\ arg.dt > 0 => FloorIsGreatestMultiple(arg.t, arg.dt, ret)
        /\ arg.dt = 0 => ret = Value(arg.t)

\* some multiple of dt in (t - dt, t] is representable
FloorRepresentable(t, dt) ==
    \E m \in Max2(IntMin, t - dt + 1)..t : m % dt = 0

(* C1, amended: the same, for every instant t and positive dt such that the
   greatest multiple of dt not exceeding t is representable in the integer
   type (it is not when t lies within dt of the smallest integer and is not
   itself such a multiple); floor(t, 0) = t for every t. *)
C1_FloorRepresentable ==
    op = "floor" =>
        /\ (arg.dt > 0 /\ FloorRepresentable(arg.t, arg.dt))
              => FloorIsGreatestMultiple(arg.t, arg.dt, ret)
        /\ arg.dt = 0 => ret = Value(arg.t)

C1_Witness ==
    /\ op = "floor"
    /\ arg.t < 0
    /\ arg.dt > 1
    /\ arg.t % arg.dt # 0
    /\ ret.kind = "value"
    /\ ret.v < arg.t
    /\ ret.v + arg.dt > arg.t

(* C2: for every period p and instant t, sentinel endpoints and start > end
   included, contains(t) is true if and only if start <= t < end.
   As stated: *)
C2_ContainsEveryPeriod ==
    op = "contains" =>
        (ret.v <=> (arg.p.start <= arg.t /\ arg.t < arg.p.end))

(* C2, amended: contains(t) is true if and only if the period is valid
   (neither endpoint is NONE and start <= end) and start <= t < end; a period
   whose start is NONE contains no instant. *)
C2_ContainsValidPeriod ==
    op = "contains" =>
        (ret.v <=> /\ arg.p.start # no_utctime
                   /\ arg.p.end # no_utctime
                   /\ arg.p.start <= arg.t
                   /\ arg.t < arg.p.end)

C2_Witness ==
    /\ op = "contains"
    /\ arg.p.start = no_utctime
    /\ arg.t < arg.p.end
    /\ ret.v = FALSE

(* C3: for valid periods a and b, intersection(a, b) is a valid period if and
   only if a.overlaps(b); when they do not overlap, touching included, the
   result is the default period (NONE, NONE). *)
C3_IntersectionValidIffOverlap ==
    (op = "intersection" /\ valid(arg.a) /\ valid(arg.b)) =>
        /\ valid(ret.v) <=> overlaps(arg.a, arg.b)
        /\ ~overlaps(arg.a, arg.b) => ret.v = utcperiod_default

----------------------------------------------------------------------------
\* the year dst_offset looks t up under, and whether the table covers it
TableYearOf(t) == utc_year(t).v
InTableWindow(tz, y) == tz.start_year <= y /\ y < tz.start_year + Len(tz.dst)

(* C4: for a table with summer time and every valid instant t whose UTC year
   lies outside [start_year, start_year + len(dst)), before it or after it,
   dst_offset(t) returns zero, without an error and without reading dst[] or
   dt[] outside their bounds. *)
C4_DstOffsetZeroOutsideTable ==
    (/\ op = "dst_offset"
     /\ tz_table_is_dst(cal.tz)
     /\ is_valid(arg.t)
     /\ ~InTableWindow(cal.tz, TableYearOf(arg.t)))
        => ret = Value(0)

\* "UTC", the sign, and exactly two decimal digits of the whole hours of dt
TwoDigitHourName(dt) ==
    LET hours == TruncDiv(dt, HOUR)
    IN  "UTC" \o (IF hours < 0 THEN "-" ELSE "+")
              \o Zeros(2 - Len(Decimal(Abs(hours)))) \o Decimal(Abs(hours))

(* C5: the table of a calendar constructed from a fixed offset dt has an
   empty dst[] and the name "UTC", a sign and exactly two decimal digits of
   the whole hours of dt ("UTC+05" for +5h30m, "UTC+00" for zero). *)
C5_FixedOffsetNameTwoDigits ==
    (op = "calendar" /\ DOMAIN arg = {"tz"}) =>
        /\ cal.tz.dst = <<>>
        /\ cal.tz.tz_name = TwoDigitHourName(arg.tz)

(* C6: for every valid instant t, negative instants that are not whole
   seconds included, day_number(t) is the floor of (UnixSecond + seconds_of(t))
   / 86400 with seconds_of rounding toward negative infinity: the serial
   number of the UTC day that contains t. *)
C6_DayNumberOfContainingDay ==
    (op = "day_number" /\ is_valid(arg.t)) =>
        /\ ret.v = (UnixSecond + (arg.t \div SECOND)) \div SecondsPerDay
        /\ (ret.v - UnixDay) * DAY <= arg.t
        /\ arg.t < (ret.v - UnixDay + 1) * DAY

\* the local value of civil coordinates, and the coordinates of a local value
LocalValue(c) == (day_number_ymd(c) - UnixDay) * DAY + hms_seconds(c.hour, c.minute, c.second)
CoordinatesOfLocal(v) ==
    LET d == from_day_number(UnixDay + (v \div DAY))
        r == v % DAY
    IN  YMDhms(d.year, d.month, d.day, r \div HOUR, (r % HOUR) \div MINUTE, (r % MINUTE) \div SECOND)
\* the table entries whose spring-forward gap [s + b, s + b + d) holds c
GapsHolding(ti, c) ==
    {i \in DOMAIN ti.tz.dst :
        /\ ti.tz.dt[i] > 0
        /\ ti.tz.dst[i].start + ti.base_tz <= LocalValue(c)
        /\ LocalValue(c) < ti.tz.dst[i].start + ti.base_tz + ti.tz.dt[i]}

(* C7: civil coordinates c whose local value lies in a skipped interval
   [s + b, s + b + d) map to the same instant as the first valid local time
   after the gap, the coordinates of s + b + d. *)
C7_SkippedHourMapsToNextValid ==
    (op = "time" /\ is_valid_coordinates(arg.c)) =>
        \A i \in GapsHolding(cal, arg.c) :
            ret \in time(cal, CoordinatesOfLocal(cal.tz.dst[i].start + cal.base_tz + cal.tz.dt[i]))

(* C8: trim is idempotent: for every valid instant t and every deltaT, a
   calendar unit or a raw duration (positive, zero or negative),
   trim(trim(t, deltaT), deltaT) = trim(t, deltaT). *)
C8_TrimIdempotent ==
    (op = "trim_again" /\ is_valid(arg.first)) => ret = Value(arg.t)

\* the text of a not-found error: some fixed text around the key
MessageParts == {"", "tz region '", "tz name '", "' not found"}
MessageCarries(what, k) == \E pre \in MessageParts, post \in MessageParts : what = pre \o k \o post
LookupAgrees(map, k, r) ==
    IF k \in DOMAIN map THEN r = Value(map[k])
    ELSE r.kind = "error" /\ MessageCarries(r.what, k)

(* C9: tz_info_from_region(k) returns the tz_info stored under k in the
   region map if k is there and otherwise signals a not-found error whose
   message carries k; tz_info_from_name(k) does the same against the name map
   only; neither lookup changes either map. *)
C9_LookupsAgreeAndKeepMaps ==
    /\ [](op = "tz_info_from_region" => LookupAgrees(region_tz_map, arg.k, ret))
    /\ [](op = "tz_info_from_name" => LookupAgrees(name_tz_map, arg.k, ret))
    /\ [][op' \in {"tz_info_from_region", "tz_info_from_name"}
            => (region_tz_map' = region_tz_map /\ name_tz_map' = name_tz_map)]_vars

C9_Witness ==
    /\ op = "tz_info_from_region"
    /\ arg.k \in DOMAIN name_tz_map
    /\ arg.k \notin DOMAIN region_tz_map
    /\ region_tz_map # <<>>
    /\ ret.kind = "error"

\* the claim's rule for an instant whose year the table covers
InSummerTime(tz, t) ==
    LET s == tz.dst[TableYearOf(t) - tz.start_year + 1].start
        e == tz.dst[TableYearOf(t) - tz.start_year + 1].end
    IN  (s < e /\ s <= t /\ t < e) \/ (~(s < e) /\ (t < e \/ t >= s))
ExpectedDstOffset(tz, t) ==
    IF InSummerTime(tz, t) THEN tz.dt[TableYearOf(t) - tz.start_year + 1] ELSE 0

(* C10: for a table with summer time and every valid instant t whose UTC
   year y the table covers, with s = dst_start(y) and e = dst_end(y):
   dst_offset(t) is dt[y - start_year] when (s < e and s <= t < e) or (not
   s < e and (t < e or t >= s)), and zero otherwise; utc_offset(t) is
   base_offset + dst_offset(t), and is_dst(t) holds iff dst_offset(t) is not
   zero. *)
C10_DstOffsetByTable ==
    (/\ op \in {"dst_offset", "utc_offset", "is_dst"}
     /\ tz_table_is_dst(cal.tz)
     /\ is_valid(arg.t)
     /\ InTableWindow(cal.tz, TableYearOf(arg.t)))
        => /\ op = "dst_offset" => ret = Value(ExpectedDstOffset(cal.tz, arg.t))
           /\ op = "utc_offset" => ret = Value(cal.base_tz + ExpectedDstOffset(cal.tz, arg.t))
           /\ op = "is_dst" => ret = Value(ExpectedDstOffset(cal.tz, arg.t) # 0)

C10_Witness ==
    /\ op = "utc_offset"
    /\ tz_table_is_dst(cal.tz)
    /\ InTableWindow(cal.tz, TableYearOf(arg.t))
    /\ cal.tz.dst[TableYearOf(arg.t) - cal.tz.start_year + 1].start
          > cal.tz.dst[TableYearOf(arg.t) - cal.tz.start_year + 1].end
    /\ arg.t < cal.tz.dst[TableYearOf(arg.t) - cal.tz.start_year + 1].end
    /\ cal.base_tz # 0
    /\ ret.kind = "value"
    /\ ret.v > cal.base_tz

(* C11: calendar::utc_year handles the three sentinel instants distinctly:
   it signals the error "year of no_utctime" for no_utctime, returns YEAR_MAX
   for max_utctime and YEAR_MIN for min_utctime (min_utctime and no_utctime
   being the same instant value); for every other t it returns the year of
   from_day_number(day_number(t)). *)
C11_UtcYearSentinels ==
    op = "utc_year" =>
        /\ arg.t = no_utctime => ret = Throw("year of no_utctime")
        /\ arg.t = max_utctime => ret = Value(YEAR_MAX)
        /\ arg.t = min_utctime => ret = Value(YEAR_MIN)
        /\ arg.t \notin {no_utctime, max_utctime, min_utctime}
              => ret = Value(from_day_number(day_number(arg.t)).year)

(* C12: for every instant t (negative, zero or positive) and every negative
   dt, floor(t, dt) computes a ceiling: the result is an integer multiple of
   dt, is >= t, and is the least such multiple (result - |dt| < t <= result).
   As stated, for every instant: *)
FloorIsLeastMultiple(t, dt, r) ==
    /\ r.kind = "value"
    /\ r.v % Abs(dt) = 0
    /\ r.v >= t
    /\ r.v - Abs(dt) < t

C12_CeilingEveryInstant ==
    (op = "floor" /\ arg.dt < 0) => FloorIsLeastMultiple(arg.t, arg.dt, ret)

\* some multiple of dt in [t, t + |dt|) is representable, and num / den is
CeilingRepresentable(t, dt) ==
    /\ \E m \in t..Min2(IntMax, t + Abs(dt) - 1) : m % Abs(dt) = 0
    /\ ~(t = IntMin /\ dt = -1)

(* C12, amended: the same, for every instant t and negative dt such that the
   least multiple of dt not below t is representable in the integer type (it
   is not when t lies within |dt| of the largest integer and is not itself
   such a multiple), the smallest integer with dt = -1 excepted. *)
C12_CeilingRepresentable ==
    (op = "floor" /\ arg.dt < 0 /\ CeilingRepresentable(arg.t, arg.dt))
        => FloorIsLeastMultiple(arg.t, arg.dt, ret)

C12_Witness ==
    /\ op = "floor"
    /\ arg.dt < -1
    /\ arg.t > 0
    /\ arg.t % Abs(arg.dt) # 0
    /\ ret.kind = "value"
    /\ ret.v > arg.t
    /\ ret.v - Abs(arg.dt) < arg.t

====
